---- MODULE Spec2Model ----
(***************************************************************************)
(* Alert matcher of the threat-intelligence dashboard.                     *)
(*                                                                         *)
(* The model follows backend/models/alert.js: the stored alert rule, the   *)
(* query shouldTrigger(threat) and the update recordTrigger(threatId).     *)
(* Dates are integers (milliseconds); the clock `now` is what new Date()   *)
(* and Date.now() return and never runs backwards.  Strings that the code  *)
(* searches or lower-cases are sequences of one-character strings; an      *)
(* optional field is <<>> when absent and <<v>> when present.              *)
(***************************************************************************)
EXTENDS Integers, Sequences, FiniteSets, TLC

VARIABLES rule, now, ret, trig, threatDoc, inflight, accounts, store

vars == <<rule, now, ret, trig, threatDoc, inflight, accounts, store>>

(***************************************************************************)
(* Optional values                                                         *)
(***************************************************************************)
None == <<>>

Some(v) == <<v>>

(***************************************************************************)
(* Text                                                                    *)
(***************************************************************************)
UpperCase == <<"A", "B", "C", "D", "E", "F", "G", "H", "I", "J", "K", "L", "M",
               "N", "O", "P", "Q", "R", "S", "T", "U", "V", "W", "X", "Y", "Z">>

LowerCase == <<"a", "b", "c", "d", "e", "f", "g", "h", "i", "j", "k", "l", "m",
               "n", "o", "p", "q", "r", "s", "t", "u", "v", "w", "x", "y", "z">>

\* One character of String.prototype.toLowerCase.
LowerChar(c) ==
  IF \E i \in DOMAIN UpperCase : UpperCase[i] = c
  THEN LowerCase[CHOOSE i \in DOMAIN UpperCase : UpperCase[i] = c]
  ELSE c

\* A mutant of toLowerCase: the text is returned as it is.
toLowerCaseIdentity(s) == s

\* String.prototype.toLowerCase
toLowerCase(s) == [i \in DOMAIN s |-> LowerChar(s[i])]

\* String.prototype.includes: part occurs in text as a contiguous run.
StrIncludes(text, part) ==
  \E i \in 0..(Len(text) - Len(part)) : SubSeq(text, i + 1, i + Len(part)) = part

\* Array.prototype.join(' ')
RECURSIVE join(_)
join(arr) ==
  IF Len(arr) = 0 THEN <<>>
  ELSE IF Len(arr) = 1 THEN arr[1]
  ELSE arr[1] \o <<" ">> \o join(Tail(arr))

\* What a template literal prints for a field: the text, or "undefined".
TemplateString(opt) ==
  IF opt = None THEN <<"u", "n", "d", "e", "f", "i", "n", "e", "d">> ELSE opt[1]

\* Array.prototype.includes for an array of strings and an optional string.
ArrIncludes(arr, opt) == \E i \in DOMAIN arr : Some(arr[i]) = opt

(***************************************************************************)
(* shouldTrigger                                                           *)
(***************************************************************************)
\* A mutant of the active check: the check is missing.
InactiveIgnored(this) == FALSE

\* if (!this.isActive) return false;
Inactive(this) == ~this.isActive

\* A mutant of the cooldown check: the deadline itself still blocks (>=).
InCooldownInclusive(this, clock) ==
  this.nextTriggerAllowed # None /\ this.nextTriggerAllowed[1] >= clock

\* this.nextTriggerAllowed && this.nextTriggerAllowed > new Date()
InCooldown(this, clock) ==
  this.nextTriggerAllowed # None /\ this.nextTriggerAllowed[1] > clock

\* cond.type !== 'Any' && cond.type !== threat.type
TypeMismatch(cond, threat) == cond.type # "Any" /\ cond.type # threat.type

\* A mutant of the value check: only an absent value counts as unset.
ValueMismatchStrict(cond, threat) ==
  cond.value # None /\ cond.value[1] # threat.value

\* cond.value && cond.value !== threat.value  (an empty string is falsy)
ValueMismatch(cond, threat) ==
  /\ cond.value # None
  /\ cond.value[1] # <<>>
  /\ cond.value[1] # threat.value

\* A mutant of the severity check: only the first configured severity is compared.
SeverityMismatchFirst(cond, threat) ==
  Len(cond.severity) > 0 /\ cond.severity[1] # threat.severity

\* cond.severity.length > 0 && !cond.severity.includes(threat.severity)
SeverityMismatch(cond, threat) ==
  Len(cond.severity) > 0 /\ ~ArrIncludes(cond.severity, Some(threat.severity))

\* A mutant of the source check: an empty set admits no source.
SourceMismatchEmptyBlocks(cond, threat) ==
  ~ArrIncludes(cond.sources, Some(threat.source))

\* cond.sources.length > 0 && !cond.sources.includes(threat.source)
SourceMismatch(cond, threat) ==
  Len(cond.sources) > 0 /\ ~ArrIncludes(cond.sources, Some(threat.source))

\* cond.categories.length > 0 && !cond.categories.includes(threat.category)
CategoryMismatch(cond, threat) ==
  Len(cond.categories) > 0 /\ ~ArrIncludes(cond.categories, threat.category)

\* cond.countries.length > 0 && !cond.countries.includes(threat.country)
CountryMismatch(cond, threat) ==
  Len(cond.countries) > 0 /\ ~ArrIncludes(cond.countries, threat.country)

\* !threat.malwareFamily  (undefined and the empty string are falsy)
NoMalwareFamily(threat) ==
  threat.malwareFamily = None \/ threat.malwareFamily[1] = ""

\* A mutant of the malware-family check: a threat without a family passes.
MalwareFamilyMismatchLenient(cond, threat) ==
  /\ Len(cond.malwareFamilies) > 0
  /\ ~NoMalwareFamily(threat)
  /\ ~ArrIncludes(cond.malwareFamilies, threat.malwareFamily)

\* cond.malwareFamilies.length > 0 &&
\*   (!threat.malwareFamily || !cond.malwareFamilies.includes(threat.malwareFamily))
MalwareFamilyMismatch(cond, threat) ==
  /\ Len(cond.malwareFamilies) > 0
  /\ \/ NoMalwareFamily(threat)
     \/ ~ArrIncludes(cond.malwareFamilies, threat.malwareFamily)

\* `${threat.description} ${threat.tags.join(' ')} ${threat.value}`.toLowerCase()
searchText(threat) ==
  toLowerCase(TemplateString(threat.description) \o <<" ">> \o join(threat.tags)
              \o <<" ">> \o threat.value)

\* cond.keywords.some(kw => searchText.includes(kw.toLowerCase()))
hasKeyword(cond, threat) ==
  \E i \in DOMAIN cond.keywords :
    StrIncludes(searchText(threat), toLowerCase(cond.keywords[i]))

\* cond.keywords.length > 0 and no keyword found
KeywordMismatch(cond, threat) ==
  Len(cond.keywords) > 0 /\ ~hasKeyword(cond, threat)

\* alertSchema.methods.shouldTrigger, with the clock reading of new Date()
shouldTrigger(this, threat, clock) ==
  IF Inactive(this) THEN FALSE
  ELSE IF InCooldown(this, clock) THEN FALSE
  ELSE LET cond == this.conditions IN
    IF TypeMismatch(cond, threat) THEN FALSE
    ELSE IF ValueMismatch(cond, threat) THEN FALSE
    ELSE IF SeverityMismatch(cond, threat) THEN FALSE
    ELSE IF SourceMismatch(cond, threat) THEN FALSE
    ELSE IF CategoryMismatch(cond, threat) THEN FALSE
    ELSE IF CountryMismatch(cond, threat) THEN FALSE
    ELSE IF MalwareFamilyMismatch(cond, threat) THEN FALSE
    ELSE IF KeywordMismatch(cond, threat) THEN FALSE
    ELSE TRUE

(***************************************************************************)
(* recordTrigger                                                           *)
(***************************************************************************)
\* The length recentMatches is cut back to.
RecentLimit == 10

\* Milliseconds in one minute of cooldown.
MsPerMinute == 60000

\* A mutant of unshift: the new match is appended (push) instead of prepended.
pushEntry(arr, threatId, clock) ==
  arr \o <<[threatId |-> threatId, matchedAt |-> clock, notified |-> FALSE]>>

\* this.recentMatches.unshift({threatId, matchedAt: new Date(), notified: false})
unshift(arr, threatId, clock) ==
  <<[threatId |-> threatId, matchedAt |-> clock, notified |-> FALSE]>> \o arr

\* A mutant of the truncation: slice(0, 11) keeps one entry too many.
truncateKeepEleven(arr) ==
  IF Len(arr) > RecentLimit THEN SubSeq(arr, 1, RecentLimit + 1) ELSE arr

\* A mutant of the truncation: slice(-10) keeps the ten oldest-stored tail entries.
truncateKeepTail(arr) ==
  IF Len(arr) > RecentLimit THEN SubSeq(arr, Len(arr) - RecentLimit + 1, Len(arr))
  ELSE arr

\* if (length > 10) this.recentMatches = this.recentMatches.slice(0, 10)
truncate(arr) ==
  IF Len(arr) > RecentLimit THEN SubSeq(arr, 1, RecentLimit) ELSE arr

\* A mutant of the cooldown step: the test is >= 0, so a cooldown of 0 sets a deadline.
cooldownDeadlineNonNegative(this, clock) ==
  IF this.cooldownMinutes >= 0
  THEN Some(clock + this.cooldownMinutes * MsPerMinute)
  ELSE this.nextTriggerAllowed

\* A mutant of the cooldown step: the deadline is the cooldown alone, without the clock.
cooldownDeadlineNoClock(this, clock) ==
  IF this.cooldownMinutes > 0
  THEN Some(this.cooldownMinutes * MsPerMinute)
  ELSE this.nextTriggerAllowed

\* A mutant of the cooldown step: a call made during the cooldown clears the deadline.
cooldownDeadlineToggle(this, clock) ==
  IF this.cooldownMinutes > 0
  THEN IF this.nextTriggerAllowed # None /\ this.nextTriggerAllowed[1] > clock
       THEN None
       ELSE Some(clock + this.cooldownMinutes * MsPerMinute)
  ELSE this.nextTriggerAllowed

\* if (cooldownMinutes > 0) nextTriggerAllowed = Date.now() + cooldownMinutes * 60000
cooldownDeadline(this, clock) ==
  IF this.cooldownMinutes > 0
  THEN Some(clock + this.cooldownMinutes * MsPerMinute)
  ELSE this.nextTriggerAllowed

\* A mutant of the counter: the count is set to 1 instead of incremented.
bumpCountReset(n) == 1

\* this.triggerCount += 1
bumpCount(n) == n + 1

\* A mutant of recordTrigger: an inactive rule or a rule in cooldown records nothing.
recordTriggerGuarded(this, threatId, t1, t2, t3) ==
  IF Inactive(this) \/ InCooldown(this, t1) THEN this
  ELSE [this EXCEPT
          !.lastTriggered = Some(t1),
          !.triggerCount = bumpCount(this.triggerCount),
          !.recentMatches = truncate(unshift(this.recentMatches, threatId, t2)),
          !.nextTriggerAllowed = cooldownDeadline(this, t3)]

\* A mutant of recordTrigger: a rule is switched off once it has triggered.
recordTriggerOnce(this, threatId, t1, t2, t3) ==
  [this EXCEPT !.isActive = FALSE,
               !.lastTriggered = Some(t1),
               !.triggerCount = bumpCount(this.triggerCount),
               !.recentMatches = truncate(unshift(this.recentMatches, threatId, t2)),
               !.nextTriggerAllowed = cooldownDeadline(this, t3)]

\* alertSchema.methods.recordTrigger; t1, t2 and t3 are its three clock readings,
\* in the order the code takes them.
recordTrigger(this, threatId, t1, t2, t3) ==
  [this EXCEPT !.lastTriggered = Some(t1),
               !.triggerCount = bumpCount(this.triggerCount),
               !.recentMatches = truncate(unshift(this.recentMatches, threatId, t2)),
               !.nextTriggerAllowed = cooldownDeadline(this, t3)]

(***************************************************************************)
(* Inputs                                                                  *)
(***************************************************************************)
IpA == <<"1", ".", "2">>

HostB == <<"b", ".", "i", "o">>

Emotet == <<"E", "m", "o", "t", "e", "t">>

\* conditions of an alert rule (alertSchema.conditions)
MatchConditions ==
  [type : {"Any", "IP"},
   value : {None, Some(<<>>), Some(IpA)},
   severity : {<<>>, <<"Critical">>, <<"High", "Critical">>},
   sources : {<<>>, <<"AbuseIPDB">>},
   categories : {<<>>, <<"Malware">>},
   countries : {<<>>, <<"US">>},
   malwareFamilies : {<<>>, <<"Emotet">>},
   keywords : {<<>>,
               << <<"e", "m", "o", "t", "e", "t">> >>,
               << <<"z", "z">>, <<"E", "M", "O", "T", "E", "T">> >>,
               << <<"u", "n", "d", "e", "f", "i", "n", "e", "d">> >>}]

\* The conditions Alert.create stores for a request without conditions.
DefaultConditions ==
  [type |-> "Any", value |-> Some(<<>>), severity |-> <<>>, sources |-> <<>>,
   categories |-> <<>>, countries |-> <<>>, malwareFamilies |-> <<>>,
   keywords |-> <<>>]

\* A rule that constrains the type and the severity only.
IpCriticalConditions ==
  [DefaultConditions EXCEPT !.type = "IP", !.value = None,
                            !.severity = <<"Critical">>]

\* source, category and country of a threat record
Classifications ==
  {[source |-> "AbuseIPDB", category |-> Some("Malware"), country |-> Some("US")],
   [source |-> "Manual", category |-> Some("Malware"), country |-> Some("US")],
   [source |-> "AbuseIPDB", category |-> None, country |-> Some("US")],
   [source |-> "AbuseIPDB", category |-> Some("Phishing"), country |-> None]}

\* description and tags of a threat record
Texts ==
  {[description |-> None, tags |-> <<>>],
   [description |-> Some(<<"B", "a", "d">>), tags |-> << Emotet, <<"c", "2">> >>],
   [description |-> Some(<<"e", "m", "o">>), tags |-> << <<"t", "e", "t">> >>]}

\* threat records (threatSchema), the fields shouldTrigger reads
Threats ==
  {[type |-> ty, value |-> va, severity |-> se, source |-> cl.source,
    category |-> cl.category, country |-> cl.country, malwareFamily |-> mf,
    description |-> tx.description, tags |-> tx.tags] :
     ty \in {"IP", "Domain"}, va \in {IpA, HostB}, se \in {"Critical", "Medium"},
     cl \in Classifications, mf \in {None, Some("Emotet"), Some("Zeus")},
     tx \in Texts}

SampleThreat(ty, se) ==
  [type |-> ty, value |-> IpA, severity |-> se, source |-> "AbuseIPDB",
   category |-> None, country |-> None, malwareFamily |-> None,
   description |-> None, tags |-> <<>>]

\* The threats offered to a rule while its trigger state evolves.
StreamThreats == {SampleThreat("IP", "Critical"), SampleThreat("Domain", "Medium")}

ThreatIds == {1, 2}

(***************************************************************************)
(* State                                                                   *)
(***************************************************************************)
\* An alert document as Alert.create stores it (schema defaults).
NewAlert(conditions, isActive, cooldownMinutes, nextTriggerAllowed) ==
  [isActive |-> isActive,
   conditions |-> conditions,
   lastTriggered |-> None,
   triggerCount |-> 0,
   recentMatches |-> <<>>,
   cooldownMinutes |-> cooldownMinutes,
   nextTriggerAllowed |-> nextTriggerAllowed]

NoCall == [op |-> "none"]

NoTrigger == [op |-> "none", calls |-> 0]

\* No threat document is under observation.
NoThreat == [stored |-> FALSE]

\* No request holds a loaded copy of the alert.
NoRequests == <<>>

\* The users collection is empty.
NoAccounts == <<>>

\* The front end is not loaded.
NoStore == [loaded |-> FALSE]

(***************************************************************************)
(* Bounds                                                                  *)
(***************************************************************************)
\* recordTrigger calls in a run of the cooldown specification
MaxTriggers == 2

\* half-minute steps of the clock in a run of the cooldown specification
MaxTicks == 4

\* recordTrigger calls in a run of the history specification
MaxHistory == 12

\* half-minute steps of the clock in a run of the history specification
MaxHistoryTicks == 1

TickMs == MsPerMinute \div 2

(***************************************************************************)
(* Actions                                                                 *)
(***************************************************************************)
\* The clock advances by d milliseconds.
Tick(d) ==
  /\ now' = now + d
  /\ UNCHANGED <<rule, ret, trig, threatDoc, inflight, accounts, store>>

\* A mutant of the evaluation: the call clears a deadline that has passed.
ShouldTriggerClearing(threat) ==
  /\ ret' = [op |-> "shouldTrigger", threat |-> threat, at |-> now,
             value |-> shouldTrigger(rule, threat, now)]
  /\ rule' = IF rule.nextTriggerAllowed # None /\ now >= rule.nextTriggerAllowed[1]
             THEN [rule EXCEPT !.nextTriggerAllowed = None]
             ELSE rule
  /\ UNCHANGED <<now, trig, threatDoc, inflight, accounts, store>>

\* A caller evaluates alert.shouldTrigger(threat).
ShouldTrigger(threat) ==
  /\ ret' = [op |-> "shouldTrigger", threat |-> threat, at |-> now,
             value |-> shouldTrigger(rule, threat, now)]
  /\ UNCHANGED <<rule, now, trig, threatDoc, inflight, accounts, store>>

\* A caller runs alert.recordTrigger(threatId); the clock advances by d1 between
\* the first and the second reading and by d2 between the second and the third.
RecordTrigger(threatId, d1, d2) ==
  /\ rule' = recordTrigger(rule, threatId, now, now + d1, now + d1 + d2)
  /\ now' = now + d1 + d2
  /\ trig' = [op |-> "recordTrigger", calls |-> trig.calls + 1,
              threatId |-> threatId, t1 |-> now,
              t2 |-> now + d1, t3 |-> now + d1 + d2,
              cooldownMinutes |-> rule.cooldownMinutes]
  /\ ret' = NoCall
  /\ UNCHANGED <<threatDoc, inflight, accounts, store>>

\* PUT /api/alerts/:id: Alert.findByIdAndUpdate(id, req.body, {new: true}) stores
\* every field of the body in the alert, without validation.
UpdateAlert(body) ==
  /\ rule' = [f \in DOMAIN rule |-> IF f \in DOMAIN body THEN body[f] ELSE rule[f]]
  /\ ret' = NoCall
  /\ UNCHANGED <<now, trig, threatDoc, inflight, accounts, store>>

(***************************************************************************)
(* Specification of the predicate: any rule, any threat                    *)
(***************************************************************************)
InitMatch ==
  /\ now = 0
  /\ ret = NoCall
  /\ trig = NoTrigger
  /\ threatDoc = NoThreat
  /\ inflight = NoRequests
  /\ accounts = NoAccounts
  /\ store = NoStore
  /\ \E c \in MatchConditions, a \in BOOLEAN,
        d \in {None, Some(0), Some(MsPerMinute)} :
       rule = NewAlert(c, a, 0, d)

\* One evaluation per run: the predicate keeps no state between calls.
NextMatch == ret = NoCall /\ \E threat \in Threats : ShouldTrigger(threat)

SpecMatch == InitMatch /\ [][NextMatch]_vars

(***************************************************************************)
(* Specification of the cooldown: a configured rule under a threat stream  *)
(***************************************************************************)
Init ==
  /\ now = 0
  /\ ret = NoCall
  /\ trig = NoTrigger
  /\ threatDoc = NoThreat
  /\ inflight = NoRequests
  /\ accounts = NoAccounts
  /\ store = NoStore
  /\ \E c \in {DefaultConditions, IpCriticalConditions}, a \in BOOLEAN,
        m \in {-1, 0, 1, 2} :
       rule = NewAlert(c, a, m, None)

Next ==
  \/ now \div TickMs < MaxTicks /\ Tick(TickMs)
  \/ \E threat \in StreamThreats : ShouldTrigger(threat)
  \/ /\ rule.triggerCount < MaxTriggers
     /\ \E threatId \in ThreatIds, d1 \in {0, 1}, d2 \in {0, 1} :
          RecordTrigger(threatId, d1, d2)

Spec == Init /\ [][Next]_vars

(***************************************************************************)
(* Specification of the match history: a new rule triggered many times     *)
(***************************************************************************)
InitHistory ==
  /\ now = 0
  /\ ret = NoCall
  /\ trig = NoTrigger
  /\ threatDoc = NoThreat
  /\ inflight = NoRequests
  /\ accounts = NoAccounts
  /\ store = NoStore
  /\ rule = NewAlert(DefaultConditions, TRUE, 0, None)

NextHistory ==
  \/ now \div TickMs < MaxHistoryTicks /\ Tick(TickMs)
  \/ /\ rule.triggerCount < MaxHistory
     /\ \E threatId \in ThreatIds : RecordTrigger(threatId, 0, 0)

SpecHistory == InitHistory /\ [][NextHistory]_vars

(***************************************************************************)
(* Properties of shouldTrigger                                             *)
(***************************************************************************)
Called == ret.op = "shouldTrigger"

\* The gates of the rule were open when the call was made.
GatesOpen ==
  /\ rule.isActive
  /\ rule.nextTriggerAllowed = None \/ rule.nextTriggerAllowed[1] <= ret.at

Elements(arr) == {arr[i] : i \in DOMAIN arr}

ValueUnset(c) == c.value = None \/ c.value = Some(<<>>)

SetsEmpty(c) ==
  /\ c.severity = <<>> /\ c.sources = <<>> /\ c.categories = <<>>
  /\ c.countries = <<>> /\ c.malwareFamilies = <<>> /\ c.keywords = <<>>

\* C1: a rule with isActive = false never triggers, whatever its conditions, its
\* cooldown deadline and the threat are.
C1_InactiveNeverTriggers == (Called /\ ~rule.isActive) => ret.value = FALSE

\* An inactive rule that every other check lets through was evaluated.
C1_Witness ==
  /\ Called /\ ~rule.isActive /\ ret.value = FALSE
  /\ rule.nextTriggerAllowed = None
  /\ rule.conditions.type = "Any" /\ rule.conditions.value = None
  /\ SetsEmpty(rule.conditions)

\* The same letter, in either case.
SwapCase(ch) ==
  IF \E i \in DOMAIN UpperCase : UpperCase[i] = ch
  THEN LowerCase[CHOOSE i \in DOMAIN UpperCase : UpperCase[i] = ch]
  ELSE IF \E i \in DOMAIN LowerCase : LowerCase[i] = ch
  THEN UpperCase[CHOOSE i \in DOMAIN LowerCase : LowerCase[i] = ch]
  ELSE ch

SameLetter(a, b) == a = b \/ SwapCase(a) = b

\* kw occurs in text when letter case is ignored.
Occurs(kw, text) ==
  \E i \in 0..(Len(text) - Len(kw)) :
    \A j \in 1..Len(kw) : SameLetter(text[i + j], kw[j])

\* description, tags and value of a threat, concatenated; an absent description
\* contributes no text.
ThreatText(t) ==
  (IF t.description = None THEN <<>> ELSE t.description[1])
    \o <<" ">> \o join(t.tags) \o <<" ">> \o t.value

Member(opt, arr) == opt # None /\ opt[1] \in Elements(arr)

\* The eight filters as the specification tabulates them.
FiltersPass(c, t) ==
  /\ c.type = "Any" \/ c.type = t.type
  /\ ValueUnset(c) \/ c.value[1] = t.value
  /\ c.severity = <<>> \/ t.severity \in Elements(c.severity)
  /\ c.sources = <<>> \/ t.source \in Elements(c.sources)
  /\ c.categories = <<>> \/ Member(t.category, c.categories)
  /\ c.countries = <<>> \/ Member(t.country, c.countries)
  /\ c.malwareFamilies = <<>> \/ Member(t.malwareFamily, c.malwareFamilies)
  /\ c.keywords = <<>>
       \/ \E i \in DOMAIN c.keywords : Occurs(c.keywords[i], ThreatText(t))

\* C4: shouldTrigger is true exactly when the rule is active, the cooldown deadline
\* is unset or not later than now, and all eight filters pass together.
C4_ExactConjunction ==
  Called => (ret.value = (GatesOpen /\ FiltersPass(rule.conditions, ret.threat)))

\* C4 restricted to threats that carry a description.
C4_WithDescription ==
  (Called /\ ret.threat.description # None)
    => (ret.value = (GatesOpen /\ FiltersPass(rule.conditions, ret.threat)))

\* C5 as stated: type 'Any' and every condition set empty make an active rule
\* outside cooldown trigger for any threat.
C5_EmptySetsAlwaysTrigger ==
  (Called /\ GatesOpen /\ rule.conditions.type = "Any" /\ SetsEmpty(rule.conditions))
    => ret.value = TRUE

\* C5 amended: type 'Any', value unset (absent or empty) and every condition set
\* empty make an active rule outside cooldown trigger for any threat.
C5_UnconstrainedAlwaysTriggers ==
  (/\ Called /\ GatesOpen /\ rule.conditions.type = "Any"
   /\ ValueUnset(rule.conditions) /\ SetsEmpty(rule.conditions))
    => ret.value = TRUE

\* The rule Alert.create stores by default (value "") fired at its cooldown deadline.
C5_Witness ==
  /\ Called /\ ret.value = TRUE
  /\ rule.conditions = DefaultConditions
  /\ rule.nextTriggerAllowed = Some(ret.at)
  /\ ret.threat.malwareFamily = None /\ ret.threat.description = None

TypeAndSeverityOnly(c) ==
  /\ c.type # "Any" /\ ValueUnset(c) /\ c.severity # <<>>
  /\ c.sources = <<>> /\ c.categories = <<>> /\ c.countries = <<>>
  /\ c.malwareFamilies = <<>> /\ c.keywords = <<>>

\* C6: an active rule outside cooldown that constrains only type and severity
\* triggers exactly for threats of that type whose severity is in the set.
C6_TypeAndSeverity ==
  (Called /\ GatesOpen /\ TypeAndSeverityOnly(rule.conditions))
    => (ret.value = (/\ ret.threat.type = rule.conditions.type
                     /\ ret.threat.severity \in Elements(rule.conditions.severity)))

\* Rule {type IP, severity [High, Critical]} fired for a Critical IP threat.
C6_Witness ==
  /\ Called /\ GatesOpen /\ ret.value = TRUE
  /\ rule.conditions.type = "IP" /\ rule.conditions.severity = <<"High", "Critical">>
  /\ TypeAndSeverityOnly(rule.conditions)
  /\ ret.threat.type = "IP" /\ ret.threat.severity = "Critical"
  /\ ret.threat.source = "AbuseIPDB"

\* The keywords of a rule in the other letter case.
RecasedRule(r) ==
  [r EXCEPT !.conditions.keywords =
     [i \in DOMAIN r.conditions.keywords |->
        [j \in DOMAIN r.conditions.keywords[i] |->
           SwapCase(r.conditions.keywords[i][j])]]]

Recased(text) == [j \in DOMAIN text |-> SwapCase(text[j])]

\* Description, tags and value of a threat in the other letter case.
RecasedThreat(t) ==
  [t EXCEPT !.description = IF t.description = None THEN None
                            ELSE Some(Recased(t.description[1])),
            !.tags = [i \in DOMAIN t.tags |-> Recased(t.tags[i])],
            !.value = Recased(t.value)]

\* A keyword of the rule occurs, whatever its case, in one of the three fields.
KeywordFound(c, t) ==
  \E i \in DOMAIN c.keywords :
    \/ t.description # None /\ Occurs(c.keywords[i], t.description[1])
    \/ \E k \in DOMAIN t.tags : Occurs(c.keywords[i], t.tags[k])
    \/ Occurs(c.keywords[i], t.value)

KeywordsOnly(c) ==
  /\ c.type = "Any" /\ ValueUnset(c) /\ c.keywords # <<>>
  /\ c.severity = <<>> /\ c.sources = <<>> /\ c.categories = <<>>
  /\ c.countries = <<>> /\ c.malwareFamilies = <<>>

C8_MalwareFamilyRequired ==
  (/\ Called /\ rule.conditions.malwareFamilies # <<>>
   /\ ~Member(ret.threat.malwareFamily, rule.conditions.malwareFamilies))
    => ret.value = FALSE

\* A rule constraining only the malware family rejected a threat without one.
C8_Witness ==
  /\ Called /\ GatesOpen /\ ret.value = FALSE
  /\ rule.conditions.malwareFamilies = <<"Emotet">>
  /\ rule.conditions.type = "Any" /\ rule.conditions.value = None
  /\ rule.conditions.severity = <<>> /\ rule.conditions.sources = <<>>
  /\ rule.conditions.categories = <<>> /\ rule.conditions.countries = <<>>
  /\ rule.conditions.keywords = <<>>
  /\ ret.threat.malwareFamily = None

(***************************************************************************)
(* Properties of recordTrigger                                             *)
(***************************************************************************)
Recorded == trig.op = "recordTrigger"

\* The deadline the last recordTrigger call stored: its Date.now() reading plus
\* the cooldown.
RecordedDeadline == trig.t3 + trig.cooldownMinutes * 60000

\* C2: after recordTrigger at time T with cooldownMinutes = N > 0, shouldTrigger
\* is false at every time before T + N minutes, and from T + N minutes on
\* (that instant included) the cooldown no longer blocks the rule.
C2_CooldownWindow ==
  (Recorded /\ trig.cooldownMinutes > 0 /\ Called) =>
    /\ ret.at < RecordedDeadline => ret.value = FALSE
    /\ ret.at >= RecordedDeadline =>
         /\ ret.value = shouldTrigger([rule EXCEPT !.nextTriggerAllowed = None],
                                      ret.threat, ret.at)
         /\ (rule.isActive /\ FiltersPass(rule.conditions, ret.threat))
              => ret.value = TRUE

\* A rule fired again at exactly T + N minutes.
C2_Witness ==
  /\ Recorded /\ trig.cooldownMinutes > 0 /\ Called
  /\ ret.at = RecordedDeadline
  /\ ret.value = TRUE

\* C3: after recordTrigger calls recentMatches has at most 10 entries, its first
\* entry is the match of the most recent call, and matchedAt never increases
\* along the list.
C3_RecentMatchesNewestFirst ==
  Recorded =>
    /\ Len(rule.recentMatches) <= 10
    /\ rule.recentMatches[1] =
         [threatId |-> trig.threatId, matchedAt |-> trig.t2, notified |-> FALSE]
    /\ \A i, j \in DOMAIN rule.recentMatches :
         i < j => rule.recentMatches[i].matchedAt >= rule.recentMatches[j].matchedAt

\* More than ten matches were recorded, the newest later than the oldest kept.
C3_Witness ==
  /\ Recorded /\ rule.triggerCount > 10
  /\ Len(rule.recentMatches) = 10
  /\ rule.recentMatches[1].matchedAt > rule.recentMatches[10].matchedAt

\* C9: each recordTrigger call sets lastTriggered to its time and adds exactly 1
\* to triggerCount, so after n calls the count has grown by n.
C9_CountAndLastTriggered ==
  /\ rule.triggerCount = trig.calls
  /\ Recorded => rule.lastTriggered = Some(trig.t1)

\* Two calls were recorded, the second after the clock had advanced.
C9_Witness ==
  /\ Recorded /\ trig.calls = 2 /\ rule.triggerCount = 2
  /\ trig.t1 > 0 /\ trig.t3 > trig.t1
  /\ rule.lastTriggered = Some(trig.t1)

\* C10: recordTrigger puts the new entry first, keeps the stored entries behind
\* it in their order, and drops only what no longer fits in 10 entries.
C10_PrependKeepOrderDropOldest ==
  [][trig'.calls = trig.calls + 1 =>
       /\ rule'.recentMatches[1] =
            [threatId |-> trig'.threatId, matchedAt |-> trig'.t2, notified |-> FALSE]
       /\ Len(rule'.recentMatches) =
            (IF Len(rule.recentMatches) + 1 > 10 THEN 10
             ELSE Len(rule.recentMatches) + 1)
       /\ \A i \in 2..Len(rule'.recentMatches) :
            rule'.recentMatches[i] = rule.recentMatches[i - 1]]_vars

\* The twelfth call pushed out an entry of a list holding both threat ids.
C10_Witness ==
  /\ Recorded /\ trig.calls = 12
  /\ Len(rule.recentMatches) = 10
  /\ \E i, j \in DOMAIN rule.recentMatches :
       rule.recentMatches[i].threatId # rule.recentMatches[j].threatId

(***************************************************************************)
(* Specification of a rule whose cooldown is edited through the API        *)
(***************************************************************************)
\* POST /api/alerts without conditions: Alert.create with the schema defaults.
InitCreated ==
  /\ now = 0
  /\ ret = NoCall
  /\ trig = NoTrigger
  /\ threatDoc = NoThreat
  /\ inflight = NoRequests
  /\ accounts = NoAccounts
  /\ store = NoStore
  /\ rule = NewAlert(DefaultConditions, TRUE, 0, None)

\* Request bodies that set cooldownMinutes and nothing else.
CooldownBodies == {[cooldownMinutes |-> m] : m \in {-1, 0, 1}}

NextCooldownEdit ==
  \/ now \div TickMs < MaxTicks /\ Tick(TickMs)
  \/ \E threat \in StreamThreats : ShouldTrigger(threat)
  \/ /\ rule.triggerCount < MaxTriggers
     /\ \E threatId \in ThreatIds, d1 \in {0, 1}, d2 \in {0, 1} :
          RecordTrigger(threatId, d1, d2)
  \/ \E body \in CooldownBodies : UpdateAlert(body)

SpecCooldownEdit == InitCreated /\ [][NextCooldownEdit]_vars

\* C11: recordTrigger stores nextTriggerAllowed = now + cooldownMinutes only when
\* cooldownMinutes > 0, and otherwise leaves nextTriggerAllowed as it was.
C11_DeadlineOnlyWhenPositive ==
  [][trig'.calls = trig.calls + 1 =>
       IF rule.cooldownMinutes > 0
       THEN rule'.nextTriggerAllowed =
              Some(trig'.t3 + rule.cooldownMinutes * 60000)
       ELSE rule'.nextTriggerAllowed = rule.nextTriggerAllowed]_vars

\* A call with a cooldown of 0 or less kept the deadline an earlier call had set.
C11_Witness ==
  /\ Recorded /\ trig.calls = 2 /\ trig.cooldownMinutes <= 0
  /\ rule.triggerCount = 2
  /\ rule.nextTriggerAllowed # None
  /\ rule.nextTriggerAllowed[1] > trig.t3

\* C12: the deadline recordTrigger stores is strictly later than the lastTriggered
\* and the matchedAt the same call writes.
C12_DeadlineAfterTrigger ==
  [][(trig'.calls = trig.calls + 1 /\ rule.cooldownMinutes > 0) =>
       /\ rule'.nextTriggerAllowed # None
       /\ rule'.nextTriggerAllowed[1] > rule'.lastTriggered[1]
       /\ rule'.nextTriggerAllowed[1] > rule'.recentMatches[1].matchedAt]_vars

\* A rule with a cooldown was triggered after the clock had passed one minute.
C12_Witness ==
  /\ Recorded /\ trig.cooldownMinutes > 0 /\ trig.t1 >= 60000
  /\ rule.lastTriggered = Some(trig.t1)
  /\ rule.nextTriggerAllowed # None
  /\ rule.nextTriggerAllowed[1] > trig.t2

(***************************************************************************)
(* Specification of a caller that asks before it records                   *)
(***************************************************************************)
\* The caller runs recordTrigger only when its latest shouldTrigger call on the
\* rule, made since the last recorded trigger, returned true.
GuardedRecordTrigger(threatId, d1, d2) ==
  /\ ret.op = "shouldTrigger"
  /\ ret.value = TRUE
  /\ RecordTrigger(threatId, d1, d2)

NextGuarded ==
  \/ now \div TickMs < MaxTicks /\ Tick(TickMs)
  \/ \E threat \in StreamThreats : ShouldTrigger(threat)
  \/ /\ rule.triggerCount < MaxTriggers
     /\ \E threatId \in ThreatIds, d1 \in {0, 1}, d2 \in {0, 1} :
          GuardedRecordTrigger(threatId, d1, d2)

SpecGuarded == Init /\ [][NextGuarded]_vars

ElevenMatches ==
  [i \in 1..(RecentLimit + 1) |-> [threatId |-> 1, matchedAt |-> 0, notified |-> TRUE]]

\* Request bodies of PUT /api/alerts/:id.
ApiBodies ==
  {[isActive |-> FALSE], [cooldownMinutes |-> 1], [name |-> "renamed"],
   [recentMatches |-> ElevenMatches]}

NextApi ==
  \/ now \div TickMs < MaxTicks /\ Tick(TickMs)
  \/ \E threat \in StreamThreats : ShouldTrigger(threat)
  \/ /\ rule.triggerCount < MaxTriggers
     /\ \E threatId \in ThreatIds : RecordTrigger(threatId, 0, 0)
  \/ \E body \in ApiBodies : UpdateAlert(body)

SpecApi == InitCreated /\ [][NextApi]_vars

\* C14: in every state of a stored rule reached by creation, PUT updates and
\* recordTrigger calls, recentMatches has at most 10 entries.
C14_StoredMatchesAtMostTen == Len(rule.recentMatches) <= 10

(***************************************************************************)
(* Absent optional fields of a threat                                      *)
(***************************************************************************)
\* C15: shouldTrigger returns a boolean for every valid rule and threat, and an
\* absent description, malwareFamily, country or category never makes a filter
\* pass: a rule that triggers for a threat without a description also triggers
\* when the description is present and empty, and a threat without category,
\* country or family passes only rules that do not constrain that field.
C15_AbsentFieldNeverPasses ==
  Called =>
    /\ ret.value \in BOOLEAN
    /\ ret.value = TRUE =>
         /\ ret.threat.description = None =>
              shouldTrigger(rule, [ret.threat EXCEPT !.description = Some(<<>>)],
                            ret.at)
         /\ ret.threat.category = None => rule.conditions.categories = <<>>
         /\ ret.threat.country = None => rule.conditions.countries = <<>>
         /\ ret.threat.malwareFamily = None => rule.conditions.malwareFamilies = <<>>

(***************************************************************************)
(* Frame of shouldTrigger and recordTrigger                                *)
(***************************************************************************)
\* A step that is one call of shouldTrigger.
ShouldTriggerStep == ret'.op = "shouldTrigger" /\ now' = now /\ trig' = trig

\* C17: shouldTrigger is a pure query: a call changes no field of the rule, so
\* the calls made between two recordTrigger calls change no later result; the
\* result is a function of the rule, the threat and the clock alone.
C17_ShouldTriggerPure ==
  [][ShouldTriggerStep =>
       /\ rule' = rule
       /\ ret'.value = shouldTrigger(rule', ret'.threat, now')
       /\ \A t \in StreamThreats :
            shouldTrigger(rule', t, now') = shouldTrigger(rule, t, now)]_vars

\* Between two recordTrigger calls, a call made after the deadline had passed
\* returned true and the deadline is still stored.
C17_Witness ==
  /\ Called /\ ret.value = TRUE
  /\ rule.triggerCount = 1
  /\ rule.nextTriggerAllowed # None /\ ret.at >= rule.nextTriggerAllowed[1]

\* C18: neither shouldTrigger nor recordTrigger changes isActive, and an active
\* rule whose conditions match the threat is refused only while the clock is
\* before its cooldown deadline.
C18_OnlyCooldownSuppresses ==
  [][/\ rule'.isActive = rule.isActive
     /\ (/\ ret'.op = "shouldTrigger"
         /\ rule'.isActive
         /\ FiltersPass(rule'.conditions, ret'.threat)
         /\ ret'.value = FALSE)
        => /\ rule'.nextTriggerAllowed # None
           /\ ret'.at < rule'.nextTriggerAllowed[1]]_vars

\* An active rule that has triggered twice refuses a matching threat during its
\* cooldown.
C18_Witness ==
  /\ Called /\ ret.value = FALSE
  /\ rule.isActive /\ rule.triggerCount = 2
  /\ FiltersPass(rule.conditions, ret.threat)
  /\ rule.nextTriggerAllowed # None /\ ret.at < rule.nextTriggerAllowed[1]

\* C20: a rule whose cooldownMinutes is 0 is never refused by the cooldown gate:
\* its result is the result of the same rule without a deadline.
C20_ZeroCooldownNeverGated ==
  (Called /\ rule.cooldownMinutes = 0) =>
    ret.value = shouldTrigger([rule EXCEPT !.nextTriggerAllowed = None],
                              ret.threat, ret.at)

(***************************************************************************)
(* Specification of concurrent recording: two callers, one stored rule     *)
(***************************************************************************)
\* The callers that record triggers for the rule at the same time.
Requests == {1, 2}

\* recordTrigger calls in a run of the concurrent specification
MaxLoads == 3

\* half-minute steps of the clock in a run of the concurrent specification
MaxRaceTicks == 1

Idle == [phase |-> "idle"]

Finished(req) == req.phase \in {"saved", "overwrote", "rejected"}

\* A mutant of save: the update is atomic on the stored document ($inc of
\* triggerCount, $push of the new match at position 0 with $slice).
saveAtomic(stored, doc) ==
  [stored EXCEPT
     !.lastTriggered = doc.lastTriggered,
     !.triggerCount = bumpCount(@),
     !.recentMatches = truncate(<<doc.recentMatches[1]>> \o @),
     !.nextTriggerAllowed =
        IF doc.cooldownMinutes > 0 THEN doc.nextTriggerAllowed ELSE @]

\* this.save(): the paths recordTrigger assigned are written with the values of
\* the in-memory document; the other paths of the stored document are kept.
save(stored, doc) ==
  [stored EXCEPT
     !.lastTriggered = doc.lastTriggered,
     !.triggerCount = doc.triggerCount,
     !.recentMatches = doc.recentMatches,
     !.nextTriggerAllowed =
        IF doc.cooldownMinutes > 0 THEN doc.nextTriggerAllowed ELSE @]

\* Caller i loads the stored rule to record a trigger for threatId.
LoadAlert(i, threatId) ==
  /\ inflight.reqs[i].phase = "idle" \/ Finished(inflight.reqs[i])
  /\ inflight.loads < MaxLoads
  /\ inflight' = [inflight EXCEPT
                    !.loads = @ + 1,
                    !.reqs[i] = [phase |-> "loaded", base |-> rule, doc |-> rule,
                                 threatId |-> threatId,
                                 version |-> inflight.version]]
  /\ UNCHANGED <<rule, now, ret, trig, threatDoc, accounts, store>>

\* Caller i runs recordTrigger on its copy up to the call of save.
CallRecordTrigger(i) ==
  /\ inflight.reqs[i].phase = "loaded"
  /\ inflight' = [inflight EXCEPT
                    !.reqs[i].phase = "saving",
                    !.reqs[i].doc = recordTrigger(@, inflight.reqs[i].threatId,
                                                  now, now, now)]
  /\ UNCHANGED <<rule, now, ret, trig, threatDoc, accounts, store>>

\* The save of caller i reaches the store and finds the document as it was loaded.
Save(i) ==
  /\ inflight.reqs[i].phase = "saving"
  /\ inflight.reqs[i].version = inflight.version
  /\ rule' = save(rule, inflight.reqs[i].doc)
  /\ inflight' = [inflight EXCEPT !.version = @ + 1, !.reqs[i].phase = "saved"]
  /\ UNCHANGED <<now, ret, trig, threatDoc, accounts, store>>

\* The save of caller i reaches the store after another save changed the
\* document: it overwrites the stored paths, or the store rejects it when the
\* document is versioned (the array was replaced by the other save).
SaveStale(i) ==
  /\ inflight.reqs[i].phase = "saving"
  /\ inflight.reqs[i].version # inflight.version
  /\ \/ /\ rule' = save(rule, inflight.reqs[i].doc)
        /\ inflight' = [inflight EXCEPT !.version = @ + 1,
                                        !.reqs[i].phase = "overwrote"]
     \/ /\ rule' = rule
        /\ inflight' = [inflight EXCEPT !.reqs[i].phase = "rejected"]
  /\ UNCHANGED <<now, ret, trig, threatDoc, accounts, store>>

InitRace ==
  /\ now = 0
  /\ ret = NoCall
  /\ trig = NoTrigger
  /\ threatDoc = NoThreat
  /\ inflight = [version |-> 0, loads |-> 0, reqs |-> [i \in Requests |-> Idle]]
  /\ accounts = NoAccounts
  /\ store = NoStore
  /\ \E m \in {0, 1} : rule = NewAlert(DefaultConditions, TRUE, m, None)

NextRace ==
  \/ now \div TickMs < MaxRaceTicks /\ Tick(TickMs)
  \/ \E i \in Requests, threatId \in ThreatIds : LoadAlert(i, threatId)
  \/ \E i \in Requests : CallRecordTrigger(i)
  \/ \E i \in Requests : Save(i)
  \/ \E i \in Requests : SaveStale(i)

SpecRace == InitRace /\ [][NextRace]_vars

\* C16: when two recordTrigger calls start from the same stored state and both
\* save, one update is lost: the stored triggerCount is the loaded count plus 1
\* and recentMatches is the list of one of the two calls, holding one new match.
\* When the second call loads what the first one saved (writes serialized), the
\* count grows by 2 and both matches are stored.
C16_ConcurrentRecordingLosesUpdate ==
  \A i \in Requests, j \in Requests :
    (i # j /\ Finished(inflight.reqs[i]) /\ Finished(inflight.reqs[j])) =>
      /\ inflight.reqs[i].version = inflight.reqs[j].version =>
           /\ rule.triggerCount = inflight.reqs[i].base.triggerCount + 1
           /\ rule.recentMatches \in {inflight.reqs[i].doc.recentMatches,
                                      inflight.reqs[j].doc.recentMatches}
           /\ Len(rule.recentMatches) =
                Len(inflight.reqs[i].base.recentMatches) + 1
      /\ (/\ inflight.reqs[i].phase = "saved"
          /\ inflight.reqs[j].phase = "saved"
          /\ inflight.reqs[j].version = inflight.reqs[i].version + 1) =>
           /\ rule.triggerCount = inflight.reqs[i].base.triggerCount + 2
           /\ rule.recentMatches[1] = inflight.reqs[j].doc.recentMatches[1]
           /\ rule.recentMatches[2] = inflight.reqs[i].doc.recentMatches[1]

\* Two calls for different threats loaded the rule after its first trigger and
\* both saved; the rule counts two triggers and holds one of their matches.
C16_Witness ==
  /\ Finished(inflight.reqs[1]) /\ Finished(inflight.reqs[2])
  /\ inflight.reqs[1].version = inflight.reqs[2].version
  /\ inflight.reqs[1].threatId # inflight.reqs[2].threatId
  /\ inflight.reqs[1].base.triggerCount = 1
  /\ rule.triggerCount = 2
  /\ Len(rule.recentMatches) = 2

(***************************************************************************)
(* Specification of re-observation: a stored threat seen again             *)
(***************************************************************************)
\* markAsSeen calls in a run of the re-observation specification
MaxSeen == 3

\* half-minute steps of the clock in a run of the re-observation specification
MaxSeenTicks == 2

\* A threat document as it is stored at time clock (schema defaults: the dates
\* are Date.now, hitCount is 1; timestamps: true adds updatedAt).
NewThreat(threat, clock) ==
  [stored |-> TRUE,
   type |-> threat.type, value |-> threat.value, severity |-> threat.severity,
   source |-> threat.source, category |-> threat.category,
   country |-> threat.country, malwareFamily |-> threat.malwareFamily,
   description |-> threat.description, tags |-> threat.tags,
   firstSeen |-> clock, dateDetected |-> clock, lastSeen |-> clock,
   hitCount |-> 1, updatedAt |-> clock]

\* A mutant of markAsSeen: the first observation is moved as well.
markAsSeenFirst(this, clock) ==
  [this EXCEPT !.firstSeen = clock, !.lastSeen = clock, !.hitCount = @ + 1]

\* threatSchema.methods.markAsSeen, up to the call of save.
markAsSeen(this, clock) ==
  [this EXCEPT !.lastSeen = clock, !.hitCount = @ + 1]

\* A caller runs threat.markAsSeen(); the clock advances by d between new Date()
\* and the save, which stamps updatedAt.
MarkAsSeen(d) ==
  /\ threatDoc.stored
  /\ threatDoc' = [markAsSeen(threatDoc, now) EXCEPT !.updatedAt = now + d]
  /\ now' = now + d
  /\ UNCHANGED <<rule, ret, trig, inflight, accounts, store>>

InitThreat ==
  /\ now = 0
  /\ ret = NoCall
  /\ trig = NoTrigger
  /\ inflight = NoRequests
  /\ accounts = NoAccounts
  /\ store = NoStore
  /\ rule = NewAlert(DefaultConditions, TRUE, 0, None)
  /\ \E threat \in Threats : threatDoc = NewThreat(threat, 0)

NextThreat ==
  \/ now \div TickMs < MaxSeenTicks /\ Tick(TickMs)
  \/ /\ threatDoc.hitCount <= MaxSeen
     /\ \E d \in {0, 1} : MarkAsSeen(d)

SpecThreat == InitThreat /\ [][NextThreat]_vars

\* The fields of a threat that re-observation leaves alone.
ThreatFrame ==
  {"type", "value", "severity", "source", "category", "country",
   "malwareFamily", "description", "tags", "firstSeen", "dateDetected"}

\* C19: a stored threat changes only on re-observation: markAsSeen sets lastSeen
\* to the time of the call, increases hitCount by exactly 1 and leaves type,
\* value, severity, source, category, country, malwareFamily, description, tags,
\* firstSeen and dateDetected unchanged.
C19_MarkAsSeenFrame ==
  [][threatDoc' # threatDoc =>
       /\ threatDoc'.lastSeen = now
       /\ threatDoc'.hitCount = threatDoc.hitCount + 1
       /\ \A f \in ThreatFrame : threatDoc'[f] = threatDoc[f]]_vars

\* A threat with a description and a malware family was seen again twice, the
\* last time after it was first seen.
C19_Witness ==
  /\ threatDoc.stored
  /\ threatDoc.hitCount = 3
  /\ threatDoc.lastSeen > threatDoc.firstSeen
  /\ threatDoc.description # None /\ threatDoc.malwareFamily # None

(***************************************************************************)
(* Removing constraints                                                    *)
(***************************************************************************)
\* The conditions c with one constraint removed.
Relaxations(c) ==
  {[c EXCEPT !.severity = <<>>], [c EXCEPT !.sources = <<>>],
   [c EXCEPT !.categories = <<>>], [c EXCEPT !.countries = <<>>],
   [c EXCEPT !.malwareFamilies = <<>>], [c EXCEPT !.keywords = <<>>],
   [c EXCEPT !.value = None], [c EXCEPT !.type = "Any"]}

\* C21: removing a constraint never stops a rule from firing: when shouldTrigger
\* is true it is still true for the same threat and time after one condition set
\* is emptied, after value is unset or after type is changed to 'Any'.
C21_RelaxationKeepsTrigger ==
  (Called /\ ret.value = TRUE) =>
    \A c \in Relaxations(rule.conditions) :
      shouldTrigger([rule EXCEPT !.conditions = c], ret.threat, ret.at)

\* A rule that constrains type, value, severity, sources and malware families
\* triggered.
C21_Witness ==
  /\ Called /\ ret.value = TRUE
  /\ rule.conditions.type = "IP" /\ rule.conditions.value = Some(IpA)
  /\ rule.conditions.severity # <<>> /\ rule.conditions.sources # <<>>
  /\ rule.conditions.malwareFamilies # <<>>

(***************************************************************************)
(* Specification of staleness: a stored threat ages                        *)
(***************************************************************************)
\* Days a threat may go unseen before it is stale.
StaleDays == 30

\* The clock of this specification counts seconds: thirty days of milliseconds
\* exceed the integers of the model checker.
DaySec == 86400

HourSec == 3600

\* The clock moves by half an hour, or by an hour less than the stale period.
HalfHourSec == HourSec \div 2

AlmostStaleSec == StaleDays * DaySec - HourSec

\* long steps of the clock in a run of the staleness specification
MaxStalePeriods == 2

\* half-hour steps of the clock in a run of the staleness specification
MaxStaleHalfHours == 4

\* The differences between the local UTC offset at the time of the call and the
\* offset thirty calendar days earlier: none, or one hour either way when a
\* daylight-saving change lies between the two.
OffsetShifts == {-HourSec, 0, HourSec}

\* threatSchema.methods.isStale: new Date() moved back by setDate(getDate() - 30),
\* which counts calendar days of local time; shift is the change of the UTC
\* offset over those days.
isStale(this, clock, shift) ==
  this.lastSeen < clock - StaleDays * DaySec + shift

\* A caller evaluates threat.isStale().
IsStale(shift) ==
  /\ threatDoc.stored
  /\ ret' = [op |-> "isStale", at |-> now, lastSeen |-> threatDoc.lastSeen,
             shift |-> shift, value |-> isStale(threatDoc, now, shift)]
  /\ UNCHANGED <<rule, now, trig, threatDoc, inflight, accounts, store>>

InitStale ==
  /\ now = 0
  /\ ret = NoCall
  /\ trig = NoTrigger
  /\ inflight = NoRequests
  /\ accounts = NoAccounts
  /\ store = NoStore
  /\ rule = NewAlert(DefaultConditions, TRUE, 0, None)
  /\ threatDoc = NewThreat(SampleThreat("IP", "Critical"), 0)

NextStale ==
  \/ now \div AlmostStaleSec < MaxStalePeriods /\ Tick(AlmostStaleSec)
  \/ (now % AlmostStaleSec) \div HalfHourSec < MaxStaleHalfHours /\ Tick(HalfHourSec)
  \/ threatDoc.hitCount <= MaxSeen /\ MarkAsSeen(0)
  \/ \E shift \in OffsetShifts : IsStale(shift)

SpecStale == InitStale /\ [][NextStale]_vars

\* C22: isStale returns true exactly when lastSeen is earlier than 30 days
\* (30 * 86400 seconds) before the time of the call; so it is false right after
\* markAsSeen and stays false until 30 days have passed since lastSeen.
C22_StaleExactlyAfterThirtyDays ==
  ret.op = "isStale" => ret.value = (ret.lastSeen < ret.at - 30 * 86400)

(***************************************************************************)
(* Specification of the call log: a new rule and the calls made on it      *)
(***************************************************************************)
\* recordTrigger calls in a run of the call-log specification
MaxLogged == 12

\* A caller runs alert.recordTrigger(threatId), one call after another; the
\* threat ids of the calls made so far are kept in inflight, oldest first.
LoggedRecordTrigger(threatId) ==
  /\ rule' = recordTrigger(rule, threatId, now, now, now)
  /\ trig' = [op |-> "recordTrigger", calls |-> trig.calls + 1,
              threatId |-> threatId, t1 |-> now, t2 |-> now, t3 |-> now,
              cooldownMinutes |-> rule.cooldownMinutes]
  /\ ret' = NoCall
  /\ inflight' = Append(inflight, threatId)
  /\ UNCHANGED <<now, threatDoc, accounts, store>>

NextLog ==
  \/ now \div TickMs < MaxHistoryTicks /\ Tick(TickMs)
  \/ /\ rule.triggerCount < MaxLogged
     /\ \E threatId \in ThreatIds : LoggedRecordTrigger(threatId)

SpecLog == InitCreated /\ [][NextLog]_vars

Min(a, b) == IF a < b THEN a ELSE b

\* C23: for a rule created with the schema defaults and modified only by
\* recordTrigger calls made one after another, recentMatches has
\* min(triggerCount, 10) entries and their threatIds are those of the last
\* min(triggerCount, 10) calls, the most recent call first.
C23_MatchesAreLastCallsReversed ==
  /\ Len(rule.recentMatches) = Min(rule.triggerCount, 10)
  /\ rule.triggerCount = Len(inflight)
  /\ \A i \in DOMAIN rule.recentMatches :
       rule.recentMatches[i].threatId = inflight[Len(inflight) - i + 1]

\* Twelve calls were made; the two oldest, for threat 1, are gone and the list
\* holds both threat ids.
C23_Witness ==
  /\ rule.triggerCount = 12 /\ Len(rule.recentMatches) = 10
  /\ inflight[1] = 1 /\ inflight[2] = 1 /\ inflight[3] = 2
  /\ rule.recentMatches[10].threatId = 2
  /\ rule.recentMatches[1].threatId = 1

(***************************************************************************)
(* recordTrigger on rules that would not trigger                           *)
(***************************************************************************)
\* C24: recordTrigger is unconditional: called on an inactive rule or on a rule
\* still in cooldown it increments triggerCount, adds a recentMatches entry and,
\* when cooldownMinutes > 0, moves nextTriggerAllowed to the time of the call plus
\* the cooldown.
C24_RecordTriggerUnconditional ==
  [][(/\ trig'.calls = trig.calls + 1
      /\ ~rule.isActive \/ InCooldown(rule, trig'.t1)) =>
       /\ rule'.triggerCount = rule.triggerCount + 1
       /\ rule'.recentMatches[1] =
            [threatId |-> trig'.threatId, matchedAt |-> trig'.t2, notified |-> FALSE]
       /\ Len(rule'.recentMatches) = Len(rule.recentMatches) + 1
       /\ rule.cooldownMinutes > 0 =>
            rule'.nextTriggerAllowed =
              Some(trig'.t3 + rule.cooldownMinutes * 60000)]_vars

\* An inactive rule with a cooldown of two minutes recorded its second trigger
\* within the first minute, during the cooldown of the first.
C24_Witness ==
  /\ Recorded /\ trig.calls = 2
  /\ ~rule.isActive /\ rule.cooldownMinutes = 2
  /\ trig.t1 < 60000
  /\ rule.triggerCount = 2 /\ Len(rule.recentMatches) = 2
  /\ rule.nextTriggerAllowed = Some(trig.t3 + 2 * 60000)

\* C25: with a clock that never goes back and an unchanged cooldownMinutes > 0,
\* a stored nextTriggerAllowed is never replaced by an earlier one or removed,
\* and lastTriggered likewise never moves back.
C25_DeadlineNeverMovesBack ==
  [][rule.cooldownMinutes > 0 =>
       /\ rule.nextTriggerAllowed # None =>
            /\ rule'.nextTriggerAllowed # None
            /\ rule'.nextTriggerAllowed[1] >= rule.nextTriggerAllowed[1]
       /\ rule.lastTriggered # None =>
            /\ rule'.lastTriggered # None
            /\ rule'.lastTriggered[1] >= rule.lastTriggered[1]]_vars

\* A rule with a cooldown of one minute recorded its second trigger half a
\* minute or more into the run, while the first deadline was still ahead.
C25_Witness ==
  /\ Recorded /\ trig.calls = 2 /\ rule.cooldownMinutes = 1
  /\ trig.t1 >= 30000 /\ trig.t1 < 60000
  /\ rule.lastTriggered = Some(trig.t1)
  /\ rule.nextTriggerAllowed = Some(trig.t3 + 60000)

(***************************************************************************)
(* Specification of the accounts: POST /register and POST /login           *)
(***************************************************************************)
Emails == {"a@x.io", "b@x.io"}

Passwords == {"p1", "p2"}

\* The requests the server handles at the same time.
AuthRequests == {1, 2}

\* requests received in a run of the accounts specification
MaxAuthCalls == 3

NoRequest == [pc |-> "idle"]

\* User.findOne({ email }): the first stored user with that email, if any.
findOne(users, email) ==
  IF \E k \in DOMAIN users : users[k].email = email
  THEN Some(users[CHOOSE k \in DOMAIN users :
                    /\ users[k].email = email
                    /\ \A l \in DOMAIN users : users[l].email = email => k <= l])
  ELSE None

\* user.comparePassword(password): the candidate is the password the account was
\* created with.
comparePassword(user, candidate) == user.password = candidate

\* createToken(id): jwt.sign({ id }, ...)
createToken(id) == [id |-> id]

Reply(status, message, token, user) ==
  [status |-> status, message |-> message, token |-> token, user |-> user]

\* A mutant of the login reply: the token is issued whatever the comparison says.
loginReplyAlways(user, isMatch) ==
  Reply(200, "Login successful", Some(createToken(user.id)), Some(user))

\* The reply of POST /login once the user is found and the password compared.
loginReply(user, isMatch) ==
  IF ~isMatch THEN Reply(400, "Invalid email/password", None, None)
  ELSE Reply(200, "Login successful", Some(createToken(user.id)), Some(user))

\* A request for route arrives with { email, password } in its body.
Post(i, route, email, password) ==
  /\ inflight.reqs[i].pc \in {"idle", "done"}
  /\ inflight.arrived < MaxAuthCalls
  /\ inflight' = [inflight EXCEPT
                    !.arrived = @ + 1,
                    !.reqs[i] = [pc |-> "findOne", route |-> route,
                                 email |-> email, password |-> password]]
  /\ UNCHANGED <<rule, now, ret, trig, threatDoc, accounts, store>>

\* register: const exists = await User.findOne({ email }); 400 when it exists.
RegisterFindOne(i) ==
  /\ inflight.reqs[i].pc = "findOne" /\ inflight.reqs[i].route = "register"
  /\ LET req == inflight.reqs[i]
         exists == findOne(accounts.users, req.email) IN
       inflight' = [inflight EXCEPT !.reqs[i] =
         IF exists # None
         THEN [req EXCEPT !.pc = "done"] @@
              [reply |-> Reply(400, "User already exists", None, None)]
         ELSE [req EXCEPT !.pc = "create"]]
  /\ UNCHANGED <<rule, now, ret, trig, threatDoc, accounts, store>>

\* register: const user = await User.create(...); the token and the reply follow.
\* When the collection has a unique index on email and the email is stored, the
\* create throws and the catch block answers 500.
RegisterCreate(i) ==
  /\ inflight.reqs[i].pc = "create"
  /\ LET req == inflight.reqs[i]
         user == [id |-> Len(accounts.users) + 1, email |-> req.email,
                  password |-> req.password] IN
       IF accounts.uniqueEmail /\ findOne(accounts.users, req.email) # None
       THEN /\ inflight' = [inflight EXCEPT !.reqs[i] =
                 [req EXCEPT !.pc = "done"] @@
                 [reply |-> Reply(500, "duplicate key", None, None)]]
            /\ UNCHANGED accounts
       ELSE /\ accounts' = [accounts EXCEPT !.users = Append(@, user)]
            /\ inflight' = [inflight EXCEPT !.reqs[i] =
                 [req EXCEPT !.pc = "done"] @@
                 [reply |-> Reply(200, "User registered successfully",
                                  Some(createToken(user.id)), Some(user))]]
  /\ UNCHANGED <<rule, now, ret, trig, threatDoc, store>>

\* login: const user = await User.findOne({ email }); 400 when there is none.
LoginFindOne(i) ==
  /\ inflight.reqs[i].pc = "findOne" /\ inflight.reqs[i].route = "login"
  /\ LET req == inflight.reqs[i]
         user == findOne(accounts.users, req.email) IN
       inflight' = [inflight EXCEPT !.reqs[i] =
         IF user = None
         THEN [req EXCEPT !.pc = "done"] @@
              [found |-> None, reply |-> Reply(400, "User does not exist", None, None)]
         ELSE [req EXCEPT !.pc = "compare"] @@ [found |-> user]]
  /\ UNCHANGED <<rule, now, ret, trig, threatDoc, accounts, store>>

\* login: const isMatch = await user.comparePassword(password); then the reply.
LoginCompare(i) ==
  /\ inflight.reqs[i].pc = "compare"
  /\ LET req == inflight.reqs[i] IN
       inflight' = [inflight EXCEPT !.reqs[i] =
         [req EXCEPT !.pc = "done"] @@
         [reply |-> loginReply(req.found[1],
                               comparePassword(req.found[1], req.password))]]
  /\ UNCHANGED <<rule, now, ret, trig, threatDoc, accounts, store>>

InitAuth ==
  /\ now = 0
  /\ ret = NoCall
  /\ trig = NoTrigger
  /\ threatDoc = NoThreat
  /\ store = NoStore
  /\ rule = NewAlert(DefaultConditions, TRUE, 0, None)
  /\ inflight = [arrived |-> 0, reqs |-> [i \in AuthRequests |-> NoRequest]]
  /\ \E u \in BOOLEAN : accounts = [uniqueEmail |-> u, users |-> <<>>]

NextAuth ==
  \/ \E i \in AuthRequests, route \in {"register", "login"},
        email \in Emails, password \in Passwords : Post(i, route, email, password)
  \/ \E i \in AuthRequests : RegisterFindOne(i)
  \/ \E i \in AuthRequests : RegisterCreate(i)
  \/ \E i \in AuthRequests : LoginFindOne(i)
  \/ \E i \in AuthRequests : LoginCompare(i)

SpecAuth == InitAuth /\ [][NextAuth]_vars

Answered(i, route) ==
  inflight.reqs[i].pc = "done" /\ inflight.reqs[i].route = route

\* C26: after any interleaving of register requests at most one account exists
\* per email, and a register request either creates its account or answers 400
\* "User already exists" and creates none, also when two requests for the same
\* new email are handled at the same time.
C26_OneAccountPerEmail ==
  /\ \A k, l \in DOMAIN accounts.users :
       accounts.users[k].email = accounts.users[l].email => k = l
  /\ \A i \in AuthRequests :
       Answered(i, "register") =>
         \/ /\ inflight.reqs[i].reply.status = 200
            /\ inflight.reqs[i].reply.user # None
            /\ inflight.reqs[i].reply.user[1] \in Elements(accounts.users)
         \/ /\ inflight.reqs[i].reply.status = 400
            /\ inflight.reqs[i].reply.message = "User already exists"
            /\ inflight.reqs[i].reply.token = None

\* C27: login issues a token only for a stored user with the given email whose
\* password is the given one; when no user is found or the password differs the
\* reply is a 400 error without token and without user.
C27_TokenOnlyForMatchingPassword ==
  \A i \in AuthRequests :
    Answered(i, "login") =>
      LET req == inflight.reqs[i] IN
        IF req.found # None /\ req.found[1].password = req.password
        THEN /\ req.reply.status = 200
             /\ req.found[1] \in Elements(accounts.users)
             /\ req.found[1].email = req.email
             /\ req.reply.token = Some([id |-> req.found[1].id])
             /\ req.reply.user = req.found
        ELSE /\ req.reply.status = 400
             /\ req.reply.token = None
             /\ req.reply.user = None

\* One login was refused for a stored user with another password while another
\* login for the same account got its token.
C27_Witness ==
  \E i, j \in AuthRequests :
    /\ Answered(i, "login") /\ Answered(j, "login")
    /\ inflight.reqs[i].email = inflight.reqs[j].email
    /\ inflight.reqs[i].reply.status = 400
    /\ inflight.reqs[i].found # None
    /\ inflight.reqs[j].reply.status = 200
    /\ inflight.reqs[j].reply.token # None

(***************************************************************************)
(* Specification of the front-end store: useThreatStore                    *)
(***************************************************************************)
\* The actions of the store that set loading.
LoadingActions ==
  {"login", "register", "fetchThreats", "searchIoC", "fetchAlerts", "createAlert"}

Tokens == {"t1", "t2"}

\* actions started in a run of the store specification
MaxStoreCalls == 3

\* The store as create() builds it; local is the value under 'token' in
\* localStorage, which the store's token is read from.
NewStore(local) ==
  [loaded |-> TRUE, local |-> local, token |-> local, user |-> None,
   threats |-> <<>>, searchResults |-> None, alerts |-> <<>>,
   loading |-> FALSE, error |-> None]

\* set({ loading: true, error: null })
begin(s) == [s EXCEPT !.loading = TRUE, !.error = None]

\* A mutant of the success branch: the token is not written to localStorage.
authSucceedsStoreOnly(s, token, user) ==
  [s EXCEPT !.token = Some(token), !.user = Some(user), !.loading = FALSE]

\* login and register, success branch: localStorage.setItem('token', token);
\* set({ token, user, loading: false })
authSucceeds(s, token, user) ==
  [s EXCEPT !.local = Some(token), !.token = Some(token), !.user = Some(user),
            !.loading = FALSE]

\* The default texts of the catch blocks.
DefaultError ==
  [login |-> "Login failed", register |-> "Registration failed",
   fetchThreats |-> "Failed to fetch threats", searchIoC |-> "Search failed",
   fetchAlerts |-> "Failed to fetch alerts", createAlert |-> "Failed to create alert"]

\* catch: set({ error: error.response?.data?.message || default, loading: false })
fails(s, action, message) ==
  [s EXCEPT !.error = IF message = None THEN Some(DefaultError[action]) ELSE message,
            !.loading = FALSE]

\* fetchThreats, searchIoC and fetchAlerts, success branch.
fetchSucceeds(s, action, data) ==
  IF action = "fetchThreats" THEN [s EXCEPT !.threats = data, !.loading = FALSE]
  ELSE IF action = "searchIoC" THEN [s EXCEPT !.searchResults = Some(data),
                                              !.loading = FALSE]
  ELSE [s EXCEPT !.alerts = data, !.loading = FALSE]

\* createAlert, success branch: the new alert is appended.
createSucceeds(s, alert) ==
  [s EXCEPT !.alerts = Append(@, alert), !.loading = FALSE]

\* logout: localStorage.removeItem('token'); set({ token: null, user: null,
\* threats: [], alerts: [] })
logout(s) ==
  [s EXCEPT !.local = None, !.token = None, !.user = None,
            !.threats = <<>>, !.alerts = <<>>]

Pending(action) == {r \in inflight.pending : r.action = action}

\* A component calls an action of the store; its request leaves.
Begin(action) ==
  /\ inflight.started < MaxStoreCalls
  /\ store' = begin(store)
  /\ inflight' = [started |-> inflight.started + 1,
                  pending |-> inflight.pending \cup
                              {[id |-> inflight.started + 1, action |-> action]}]
  /\ UNCHANGED <<rule, now, ret, trig, threatDoc, accounts>>

\* The reply to a login or register request carries a token and a user.
AuthSucceeds(r, token) ==
  /\ r \in Pending("login") \cup Pending("register")
  /\ store' = authSucceeds(store, token, "user")
  /\ inflight' = [inflight EXCEPT !.pending = @ \ {r}]
  /\ ret' = [op |-> "store", action |-> r.action, outcome |-> "ok",
             token |-> Some(token), before |-> store.token]
  /\ UNCHANGED <<rule, now, trig, threatDoc, accounts>>

\* A request fails, with or without a message in the reply.
Fails(r, message) ==
  /\ r \in inflight.pending
  /\ store' = fails(store, r.action, message)
  /\ inflight' = [inflight EXCEPT !.pending = @ \ {r}]
  /\ ret' = [op |-> "store", action |-> r.action, outcome |-> "failed",
             token |-> None, before |-> store.token]
  /\ UNCHANGED <<rule, now, trig, threatDoc, accounts>>

\* The reply to fetchThreats, searchIoC or fetchAlerts carries the data.
FetchSucceeds(r, data) ==
  /\ r \in Pending("fetchThreats") \cup Pending("searchIoC") \cup Pending("fetchAlerts")
  /\ store' = fetchSucceeds(store, r.action, data)
  /\ inflight' = [inflight EXCEPT !.pending = @ \ {r}]
  /\ ret' = [op |-> "store", action |-> r.action, outcome |-> "ok",
             token |-> None, before |-> store.token]
  /\ UNCHANGED <<rule, now, trig, threatDoc, accounts>>

\* The reply to createAlert carries the stored alert.
CreateSucceeds(r) ==
  /\ r \in Pending("createAlert")
  /\ store' = createSucceeds(store, "alert")
  /\ inflight' = [inflight EXCEPT !.pending = @ \ {r}]
  /\ ret' = [op |-> "store", action |-> r.action, outcome |-> "ok",
             token |-> None, before |-> store.token]
  /\ UNCHANGED <<rule, now, trig, threatDoc, accounts>>

\* The user logs out.
Logout ==
  /\ store' = logout(store)
  /\ ret' = [op |-> "store", action |-> "logout", outcome |-> "ok",
             token |-> None, before |-> store.token]
  /\ UNCHANGED <<rule, now, trig, threatDoc, inflight, accounts>>

InitStore ==
  /\ now = 0
  /\ ret = NoCall
  /\ trig = NoTrigger
  /\ threatDoc = NoThreat
  /\ accounts = NoAccounts
  /\ rule = NewAlert(DefaultConditions, TRUE, 0, None)
  /\ inflight = [started |-> 0, pending |-> {}]
  /\ \E local \in {None, Some("t0")} : store = NewStore(local)

NextStore ==
  \/ \E action \in LoadingActions : Begin(action)
  \/ \E r \in inflight.pending, token \in Tokens : AuthSucceeds(r, token)
  \/ \E r \in inflight.pending, message \in {None, Some("Invalid email/password")} :
       Fails(r, message)
  \/ \E r \in inflight.pending, data \in {<<>>, <<"item">>} : FetchSucceeds(r, data)
  \/ \E r \in inflight.pending : CreateSucceeds(r)
  \/ Logout

SpecStore == InitStore /\ [][NextStore]_vars

Completed(action, outcome) ==
  ret.op = "store" /\ ret.action = action /\ ret.outcome = outcome

C29_LoadingWhileAnyInFlight ==
  store.loading = (inflight.pending # {})
====
